---- MODULE Spec2Model ----
(***************************************************************************)
(* Model of sdk/src/signer.rs: the Signer and AsyncSigner traits and the   *)
(* Placeholder / AsyncPlaceholder implementations, invoked through shared  *)
(* references by several callers.                                          *)
(***************************************************************************)
EXTENDS Integers, Sequences, FiniteSets, TLC

\* ---------------------------------------------------------------- bounds
NumCallers == 2
MaxCalls == 3
\* the longest signature the concrete signer's key produces
MaxSig == 2
\* the reserve_size the concrete signer is constructed with
BackendReserve == 1

Callers == 1..NumCallers

\* b"hello", the input of the spec's scenario
Hello == <<104, 101, 108, 108, 111>>

\* the byte inputs handed to sign: the empty input, a single byte, and b"hello"
Data == {<<>>, <<0>>, Hello}

\* the signatures the concrete signer's key produces: any length up to MaxSig
RawSignatures == {[i \in 1..k |-> 0] : k \in 0..MaxSig}

\* ---------------------------------------------------------------- state
VARIABLES
  placeholder,       \* the shared Placeholder instance
  asyncPlaceholder,  \* the shared AsyncPlaceholder instance
  backend,           \* a concrete signer of the Signer contract
  pc,                \* per caller: "idle", or "pending" while a sign future is suspended
  fut,               \* per caller: the data captured by its suspended sign future
  ret,               \* per caller: the last value returned to it
  calls,             \* number of calls made on the shared instances so far
  sizes,             \* per instance: every value reserve_size has returned
  fresh              \* the results of the freshly constructed Placeholder

vars == <<placeholder, asyncPlaceholder, backend, pc, fut, ret, calls, sizes, fresh>>

\* the callers whose sign future is suspended
Suspended == {c \in Callers : pc[c] = "pending"}

\* ---------------------------------------------------------------- values
\* crate::Result<T>
Ok(v) == [ok |-> TRUE, val |-> v]
Err(e) == [ok |-> FALSE, err |-> e]

\* Option<T>
None == [some |-> FALSE]
Some(v) == [some |-> TRUE, val |-> v]

\* b"invalid signature".to_vec()
InvalidSignature ==
  <<105, 110, 118, 97, 108, 105, 100, 32, 115, 105, 103, 110, 97, 116, 117, 114, 101>>

\* pub struct Placeholder {} and pub struct AsyncPlaceholder {}: no fields
Placeholder == [field \in {} |-> 0]
AsyncPlaceholder == [field \in {} |-> 0]

\* ---------------------------------------------------------------- Signer
\* trait defaults (each operator is preceded by its faulty variants, which
\* the properties below must tell apart from it)
Signer_time_authority_url(self) == None

Signer_ocsp_val_some(self) == Some(<<>>)
Signer_ocsp_val(self) == None

\* impl Signer for Placeholder
Placeholder_sign_echo(self, data) == Ok(data)
Placeholder_sign_once(self, data) ==
  IF calls = 0 THEN Ok(InvalidSignature) ELSE Err("SigningError")
Placeholder_sign_contended(self, data) ==
  IF Suspended = {} THEN Ok(InvalidSignature) ELSE Err("SigningError")
Placeholder_sign(self, data) == Ok(InvalidSignature)

Placeholder_alg_some(self) == Some("ps256")
Placeholder_alg(self) == None

Placeholder_certs_err(self) == Err("CertificateLoadError")
Placeholder_certs(self) == Ok(<<>>)

Placeholder_reserve_size_small(self) == 16
Placeholder_reserve_size_drift(self) == IF calls < 2 THEN 128 ELSE 256
Placeholder_reserve_size(self) == 128

\* the methods the impl block of Placeholder defines; the others fall to the trait
PlaceholderImpl == {"sign", "alg", "certs", "reserve_size"}

\* impl AsyncSigner for AsyncPlaceholder
AsyncPlaceholder_sign_err(self, data) == Err("SigningError")
AsyncPlaceholder_sign(self, data) == Ok(InvalidSignature)

AsyncPlaceholder_reserve_size(self) == 128

\* a concrete signer: reserve_size is fixed at construction, and sign fails
\* when the signature its key produced is larger than reserve_size
Backend_sign_unchecked(self, raw) == Ok(raw)
Backend_sign(self, raw) ==
  IF Len(raw) > self.reserve THEN Err("SigningError") ELSE Ok(raw)

Backend_reserve_size(self) == self.reserve

\* ---------------------------------------------------------------- Init
\* overlap: the call returned while another caller's sign future was suspended
NoResult == [op |-> "none", arg |-> <<>>, val |-> None, overlap |-> FALSE]

Returned(op, arg, val, c) ==
  [op |-> op, arg |-> arg, val |-> val, overlap |-> Suspended \ {c} # {}]

Init ==
  /\ placeholder = Placeholder
  /\ asyncPlaceholder = AsyncPlaceholder
  /\ backend = [reserve |-> BackendReserve]
  /\ pc = [c \in Callers |-> "idle"]
  /\ fut = [c \in Callers |-> <<>>]
  /\ ret = [c \in Callers |-> NoResult]
  /\ calls = 0
  /\ sizes = [i \in {"Placeholder", "AsyncPlaceholder", "Backend"} |-> {}]
  /\ fresh = [sign |-> [d \in Data |-> Placeholder_sign(placeholder, d)],
              alg |-> Placeholder_alg(placeholder),
              certs |-> Placeholder_certs(placeholder),
              reserve_size |-> Placeholder_reserve_size(placeholder),
              time_authority_url |-> Signer_time_authority_url(placeholder),
              ocsp_val |-> Signer_ocsp_val(placeholder)]

\* ---------------------------------------------------------------- calls
CanCall(c) == pc[c] = "idle" /\ calls < MaxCalls

Return(c, r) ==
  /\ ret' = [ret EXCEPT ![c] = r]
  /\ calls' = calls + 1
  /\ UNCHANGED <<placeholder, asyncPlaceholder, backend, pc, fut, fresh>>

Sign(c, d) ==
  /\ CanCall(c)
  /\ Return(c, Returned("sign", d, Placeholder_sign(placeholder, d), c))
  /\ UNCHANGED sizes

Alg(c) ==
  /\ CanCall(c)
  /\ Return(c, Returned("alg", <<>>, Placeholder_alg(placeholder), c))
  /\ UNCHANGED sizes

Certs(c) ==
  /\ CanCall(c)
  /\ Return(c, Returned("certs", <<>>, Placeholder_certs(placeholder), c))
  /\ UNCHANGED sizes

ReserveSize(c) ==
  /\ CanCall(c)
  /\ LET size == Placeholder_reserve_size(placeholder)
     IN /\ Return(c, Returned("reserve_size", <<>>, size, c))
        /\ sizes' = [sizes EXCEPT !["Placeholder"] = @ \cup {size}]

TimeAuthorityUrl(c) ==
  /\ CanCall(c)
  /\ "time_authority_url" \notin PlaceholderImpl
  /\ Return(c, Returned("time_authority_url", <<>>,
                        Signer_time_authority_url(placeholder), c))
  /\ UNCHANGED sizes

OcspVal(c) ==
  /\ CanCall(c)
  /\ "ocsp_val" \notin PlaceholderImpl
  /\ Return(c, Returned("ocsp_val", <<>>, Signer_ocsp_val(placeholder), c))
  /\ UNCHANGED sizes

\* AsyncPlaceholder.sign(d) hands back a future that has captured d
AsyncSign(c, d) ==
  /\ CanCall(c)
  /\ pc' = [pc EXCEPT ![c] = "pending"]
  /\ fut' = [fut EXCEPT ![c] = d]
  /\ ret' = [ret EXCEPT ![c] = NoResult]
  /\ calls' = calls + 1
  /\ UNCHANGED <<placeholder, asyncPlaceholder, backend, sizes, fresh>>

\* the future is polled: the body of sign runs to completion
AsyncSignResume(c) ==
  /\ pc[c] = "pending"
  /\ pc' = [pc EXCEPT ![c] = "idle"]
  /\ fut' = [fut EXCEPT ![c] = <<>>]
  /\ ret' = [ret EXCEPT ![c] =
               Returned("async_sign", fut[c],
                        AsyncPlaceholder_sign(asyncPlaceholder, fut[c]), c)]
  /\ UNCHANGED <<placeholder, asyncPlaceholder, backend, calls, sizes, fresh>>

AsyncReserveSize(c) ==
  /\ CanCall(c)
  /\ LET size == AsyncPlaceholder_reserve_size(asyncPlaceholder)
     IN /\ Return(c, Returned("async_reserve_size", <<>>, size, c))
        /\ sizes' = [sizes EXCEPT !["AsyncPlaceholder"] = @ \cup {size}]

\* raw is the signature the backend's key produces over the caller's data
BackendSign(c, raw) ==
  /\ CanCall(c)
  /\ Return(c, Returned("backend_sign", raw, Backend_sign(backend, raw), c))
  /\ UNCHANGED sizes

BackendReserveSize(c) ==
  /\ CanCall(c)
  /\ LET size == Backend_reserve_size(backend)
     IN /\ Return(c, Returned("backend_reserve_size", <<>>, size, c))
        /\ sizes' = [sizes EXCEPT !["Backend"] = @ \cup {size}]

Next ==
  \/ \E c \in Callers, d \in Data : Sign(c, d)
  \/ \E c \in Callers : Alg(c)
  \/ \E c \in Callers : Certs(c)
  \/ \E c \in Callers : ReserveSize(c)
  \/ \E c \in Callers : TimeAuthorityUrl(c)
  \/ \E c \in Callers : OcspVal(c)
  \/ \E c \in Callers, d \in Data : AsyncSign(c, d)
  \/ \E c \in Callers : AsyncSignResume(c)
  \/ \E c \in Callers : AsyncReserveSize(c)
  \/ \E c \in Callers, raw \in RawSignatures : BackendSign(c, raw)
  \/ \E c \in Callers : BackendReserveSize(c)

Spec == Init /\ [][Next]_vars

\* ---------------------------------------------------------------- properties
SyncOps == {"sign", "alg", "certs", "reserve_size", "time_authority_url", "ocsp_val"}

\* what the freshly constructed Placeholder returned for the call recorded in r
FreshOf(r) ==
  CASE r.op = "sign" -> fresh.sign[r.arg]
    [] r.op = "alg" -> fresh.alg
    [] r.op = "certs" -> fresh.certs
    [] r.op = "reserve_size" -> fresh.reserve_size
    [] r.op = "time_authority_url" -> fresh.time_authority_url
    [] r.op = "ocsp_val" -> fresh.ocsp_val

\* C1: every Placeholder.sign(d), for every input d (the empty one included)
\* and after any earlier calls, returns success, and the bytes returned are
\* exactly the 17 bytes of "invalid signature".
C1_SignIsInvalidSignature ==
  \A c \in Callers :
    ret[c].op = "sign" =>
      /\ ret[c].val.ok
      /\ ret[c].val.val = InvalidSignature
      /\ Len(ret[c].val.val) = 17

\* C1 witness: after three calls on the instance, one caller holds the result
\* of sign of the empty input and another the result of sign of b"hello".
C1_Witness ==
  \E c, o \in Callers :
    /\ c # o
    /\ ret[c].op = "sign" /\ ret[c].arg = <<>> /\ calls >= 3
    /\ ret[o].op = "sign" /\ ret[o].arg = Hello

\* C2: every signature Placeholder.sign has returned, and the one it returns
\* for any input d, is no longer than what reserve_size returns, which is 128.
C2_SignFitsReserveSize ==
  /\ sizes["Placeholder"] \subseteq {128}
  /\ \A d \in Data :
       LET r == Placeholder_sign(placeholder, d)
       IN r.ok => Len(r.val) <= Placeholder_reserve_size(placeholder)
  /\ \A c \in Callers :
       ret[c].op = "sign" /\ ret[c].val.ok =>
         \A size \in sizes["Placeholder"] : Len(ret[c].val.val) <= size

\* C2 witness: one caller holds a signature and reserve_size has returned.
C2_Witness ==
  \E c \in Callers :
    /\ ret[c].op = "sign" /\ ret[c].val.ok
    /\ sizes["Placeholder"] # {}

\* C3: a sign call whose signature would be longer than reserve_size() fails
\* with a signing error, and no successful sign call of any signer returns a
\* signature longer than that signer's reserve_size().
C3_OversizeSignFails ==
  \A c \in Callers :
    /\ ret[c].op = "backend_sign" =>
         /\ Len(ret[c].arg) > Backend_reserve_size(backend) =>
              ~ret[c].val.ok /\ ret[c].val.err = "SigningError"
         /\ ret[c].val.ok => Len(ret[c].val.val) <= Backend_reserve_size(backend)
    /\ ret[c].op = "sign" /\ ret[c].val.ok =>
         Len(ret[c].val.val) <= Placeholder_reserve_size(placeholder)
    /\ ret[c].op = "async_sign" /\ ret[c].val.ok =>
         Len(ret[c].val.val) <= AsyncPlaceholder_reserve_size(asyncPlaceholder)

\* C3 witness: a sign call of the concrete signer has returned whose
\* signature is longer than the signer's reserve_size.
C3_Witness ==
  \E c \in Callers :
    /\ ret[c].op = "backend_sign"
    /\ Len(ret[c].arg) > backend.reserve

\* C4: all the reserve_size() calls on one instance return one value, whatever
\* calls come between them; for Placeholder and AsyncPlaceholder it is 128.
C4_ReserveSizeStable ==
  /\ \A i \in DOMAIN sizes : Cardinality(sizes[i]) <= 1
  /\ sizes["Placeholder"] \subseteq {128}
  /\ sizes["AsyncPlaceholder"] \subseteq {128}

\* C4 witness: reserve_size has returned to two callers, and the async
\* instance has returned its size too.
C4_Witness ==
  /\ \E c, o \in Callers :
       c # o /\ ret[c].op = "reserve_size" /\ ret[o].op = "reserve_size"
  /\ calls >= 3
  /\ sizes["AsyncPlaceholder"] # {}

\* C5: Placeholder.certs() returns success with an empty certificate sequence.
C5_CertsEmpty ==
  \A c \in Callers :
    ret[c].op = "certs" => ret[c].val.ok /\ Len(ret[c].val.val) = 0

\* C5 witness: certs has returned, and it was not the first call on the instance.
C5_Witness == \E c \in Callers : ret[c].op = "certs" /\ calls >= 2

\* C6: Placeholder.alg() returns none, also after sign calls.
C6_AlgNone ==
  \A c \in Callers : ret[c].op = "alg" => ret[c].val = None

\* C6 witness: alg has returned, another caller holds a signature, and three
\* calls have been made on the instance.
C6_Witness ==
  \E c, o \in Callers : ret[c].op = "alg" /\ calls >= 3 /\ ret[o].op = "sign"

\* C7: Placeholder overrides neither time_authority_url nor ocsp_val, and
\* both return none, the trait's default.
C7_DefaultsNone ==
  /\ {"time_authority_url", "ocsp_val"} \cap PlaceholderImpl = {}
  /\ \A c \in Callers :
       ret[c].op \in {"time_authority_url", "ocsp_val"} => ret[c].val = None

\* C7 witness: both optional operations have returned.
C7_Witness ==
  \E c, o \in Callers :
    ret[c].op = "time_authority_url" /\ ret[o].op = "ocsp_val"

\* C8: the Placeholder instance is never changed, and every result of its
\* operations equals the result of the freshly constructed instance.
C8_NoMutation ==
  /\ placeholder = Placeholder
  /\ \A c \in Callers :
       ret[c].op \in SyncOps => ret[c].val = FreshOf(ret[c])

\* C8 witness: a caller holds a sign result once three calls have been made.
C8_Witness ==
  \E c \in Callers : ret[c].op = "sign" /\ calls >= 3

\* C9: an awaited AsyncPlaceholder.sign(d) completes with the outcome of
\* Placeholder.sign(d), success with "invalid signature", and the two
\* reserve_size() agree on 128.
C9_AsyncEquivalent ==
  /\ \A c \in Callers :
       /\ ret[c].op = "async_sign" =>
            /\ ret[c].val = Placeholder_sign(placeholder, ret[c].arg)
            /\ ret[c].val = Ok(InvalidSignature)
       /\ ret[c].op = "async_reserve_size" =>
            /\ ret[c].val = Placeholder_reserve_size(placeholder)
            /\ ret[c].val = 128
  /\ \A c, o \in Callers :
       /\ ret[c].op = "async_sign" /\ ret[o].op = "sign" => ret[c].val = ret[o].val
       /\ ret[c].op = "async_reserve_size" /\ ret[o].op = "reserve_size" =>
            ret[c].val = ret[o].val

\* C9 witness: the two variants have signed the same input.
C9_Witness ==
  \E c, o \in Callers :
    ret[c].op = "async_sign" /\ ret[o].op = "sign" /\ ret[c].arg = ret[o].arg

\* a step leaves caller c's future and last result as they are
Untouched(c) ==
  /\ pc'[c] = pc[c]
  /\ fut'[c] = fut[c]
  /\ ret'[c].op = ret[c].op
  /\ ret'[c].arg = ret[c].arg
  /\ ret'[c].overlap = ret[c].overlap
  /\ ret'[c].val = ret[c].val

\* C10: whatever the other callers have in flight, a step changes the future
\* and the result of one caller at most, and every sign returns the fixed
\* bytes and every reserve_size returns 128, as when running alone.
C10_SharedWithoutLocking ==
  [][/\ \A c, o \in Callers : c # o => Untouched(c) \/ Untouched(o)
     /\ \A c \in Callers :
          /\ ret'[c].op = "sign" =>
               ret'[c].val = Ok(InvalidSignature) /\ ret'[c].val = fresh.sign[ret'[c].arg]
          /\ ret'[c].op = "async_sign" => ret'[c].val = Ok(InvalidSignature)
          /\ ret'[c].op = "reserve_size" =>
               ret'[c].val = 128 /\ ret'[c].val = fresh.reserve_size
          /\ ret'[c].op = "async_reserve_size" => ret'[c].val = 128]_vars

\* C10 witness: a sign has returned while another caller's sign future was
\* suspended, and that future is suspended still.
C10_Witness ==
  \E c \in Callers :
    /\ ret[c].op = "sign"
    /\ ret[c].overlap
    /\ \E o \in Callers \ {c} : pc[o] = "pending"

====
